---- MODULE Spec2Model ----
(***************************************************************************)
(* Model of the localStorage-backed API shim of the resume builder          *)
(* (client/src/configs/api.js): the storage accessor, the seed initializer, *)
(* the resume repository, the request router and the error envelope; and of *)
(* the auth slice of the store (client/src/app/features/authSlice.js),       *)
(* which reads and writes the same localStorage cells.                      *)
(***************************************************************************)
EXTENDS Integers, Sequences, FiniteSets, TLC

VARIABLES store, clock, pending, last, auth

vars == <<store, clock, pending, last, auth>>

(***************************************************************************)
(* Bounds of the model.                                                     *)
(***************************************************************************)
\* Largest reading of the clock (milliseconds), so that runs are finite.
MaxClock == 4
\* Largest number of entries the stored collection is let to grow to.
MaxResumes == 3
\* Largest number of update calls suspended at the image conversion.
MaxInflight == 1
\* The same where concurrent updates are looked at.
MaxRacing == 2

(***************************************************************************)
(* JavaScript values as far as the shim looks at them.                      *)
(*   [k |-> "null",   a |-> <<>>]    null (and any other falsy JSON value)  *)
(*   [k |-> "object", a |-> <<u>>]   a non-array object (u: its content)    *)
(*   [k |-> "array",  a |-> s]       an array with the elements of s        *)
(***************************************************************************)
JsNull == [k |-> "null", a |-> <<>>]

JsObject(content) == [k |-> "object", a |-> content]

JsArray(s) == [k |-> "array", a |-> s]

Truthy(j) == j.k # "null"

(***************************************************************************)
(* localStorage cells.  getItem gives null for t = "absent", the empty      *)
(* string for "empty", a text that JSON.parse rejects for "corrupt" and the *)
(* JSON text of j for "json".  The token cell holds a plain string.         *)
(***************************************************************************)
Absent == [t |-> "absent", j |-> JsNull]

EmptyText == [t |-> "empty", j |-> JsNull]

CorruptText == [t |-> "corrupt", j |-> JsNull]

NoToken == [t |-> "absent", s |-> ""]

TokenText(s) == [t |-> "text", s |-> s]

\* LS_KEYS: the three keys of the store.
LS_KEYS == [user |-> "arb_user", token |-> "arb_token", resumes |-> "arb_resumes"]

\* nowIso: toISOString of the clock reading t.
IsoTable == <<"2026-01-01T00:00:00.001Z", "2026-01-01T00:00:00.002Z",
              "2026-01-01T00:00:00.003Z", "2026-01-01T00:00:00.004Z",
              "2026-01-01T00:00:00.005Z", "2026-01-01T00:00:00.006Z">>

nowIso(t) == IsoTable[t]

\* new Date(s).getTime(): the milliseconds of an ISO text, NaN (-1) otherwise.
NaN == -1

DateGetTime(s) ==
    IF \E t \in DOMAIN IsoTable : IsoTable[t] = s
    THEN CHOOSE t \in DOMAIN IsoTable : IsoTable[t] = s
    ELSE NaN

\* readJson: the fallback when the raw text is falsy or does not parse.
readJson(cell, fallback) ==
    IF cell.t \in {"absent", "empty"} THEN fallback
    ELSE IF cell.t = "corrupt" THEN fallback
    ELSE cell.j

\* writeJson: JSON.stringify of the value, stored under the key.
writeJson(value) == [t |-> "json", j |-> value]

DefaultUser == [_id |-> "local_user", name |-> "Joe Doe", email |-> "joe@example.com"]

\* ensureSeed, user part.
SeedUser(cell) ==
    IF ~Truthy(readJson(cell, JsNull)) THEN writeJson(JsObject(<<DefaultUser>>)) ELSE cell

\* ensureSeed, token part: the raw string is tested, not parsed.
SeedToken(cell) ==
    IF cell.t = "absent" \/ cell.s = "" THEN TokenText("local_token") ELSE cell

\* The collection part that writes an empty collection whatever is stored.
SeedResumesAlways(cell) == writeJson(JsArray(<<>>))

\* ensureSeed, collection part.
SeedResumes(cell) ==
    IF ~Truthy(readJson(cell, JsNull)) THEN writeJson(JsArray(<<>>)) ELSE cell

\* ensureSeed that writes the default user without looking at the stored one.
ensureSeedOverwriting(st) ==
    [user |-> writeJson(JsObject(<<DefaultUser>>)), token |-> SeedToken(st.token),
     resumes |-> SeedResumes(st.resumes)]

ensureSeed(st) ==
    [user |-> SeedUser(st.user), token |-> SeedToken(st.token),
     resumes |-> SeedResumes(st.resumes)]

\* getResumes: seeds, then reads the collection (the store after it, the value).
getResumes(st) == readJson(ensureSeed(st).resumes, JsArray(<<>>))

\* An _id need not be a string: resumeData can carry the number NaN, which
\* is === to nothing, itself included, and which JSON.stringify writes as null.
IdNaN == "<NaN>"

IdNull == "<null>"

\* JSON.stringify of the collection, as far as it changes an entry.
Stringified(resumes) ==
    [i \in 1..Len(resumes) |->
        IF resumes[i]._id = IdNaN THEN [resumes[i] EXCEPT !._id = IdNull]
        ELSE resumes[i]]

\* setResumes
setResumes(st, resumes) ==
    [st EXCEPT !.resumes = writeJson(JsArray(Stringified(resumes)))]

(***************************************************************************)
(* Objects: functions from property names to values.                        *)
(***************************************************************************)
EmptyObject == <<>>

\* {...a, ...b}
Spread(a, b) ==
    [k \in DOMAIN a \cup DOMAIN b |-> IF k \in DOMAIN b THEN b[k] ELSE a[k]]

\* o.personal_info || {}
PersonalInfoOf(o) ==
    IF "personal_info" \in DOMAIN o THEN o.personal_info ELSE EmptyObject

\* The resume literal of the create and upload-resume handlers.
NewResume(id, title, summary, tCreated, tUpdated) ==
    [_id |-> id, title |-> title, personal_info |-> EmptyObject,
     professional_summary |-> summary, experience |-> <<>>, education |-> <<>>,
     project |-> <<>>, skills |-> <<>>, template |-> "classic",
     accent_color |-> "#3B82F6", public |-> FALSE,
     createdAt |-> nowIso(tCreated), updatedAt |-> nowIso(tUpdated)]

(***************************************************************************)
(* Resume repository.                                                       *)
(***************************************************************************)
\* r._id === id
StrictEquals(a, b) == a # IdNaN /\ b # IdNaN /\ a = b

\* Array.prototype.find / findIndex on r._id === id: the first index, 0 if none.
FindIndex(resumes, id) ==
    IF \E i \in 1..Len(resumes) : StrictEquals(resumes[i]._id, id)
    THEN CHOOSE i \in 1..Len(resumes) :
            /\ StrictEquals(resumes[i]._id, id)
            /\ \A j \in 1..(i - 1) : ~StrictEquals(resumes[j]._id, id)
    ELSE 0

\* findResume on an array: the entry as a sequence of one, <<>> for null.
findResume(resumes, id) ==
    IF FindIndex(resumes, id) > 0 THEN <<resumes[FindIndex(resumes, id)]>> ELSE <<>>

\* The upsert that writes a collection of the updated resume alone.
UpsertAlone(resumes, updated) == <<updated>>

\* upsertResume on an array: replace in place, or push.
Upsert(resumes, updated) ==
    IF FindIndex(resumes, updated._id) > 0
    THEN [resumes EXCEPT ![FindIndex(resumes, updated._id)] = updated]
    ELSE Append(resumes, updated)

\* upsertResume: getResumes (which seeds), then setResumes.
upsertResume(st, updated) ==
    setResumes(ensureSeed(st), Upsert(getResumes(st).a, updated))

\* The filter with its test the wrong way round: r._id === id.
FilterOutOthers(resumes, id) == SelectSeq(resumes, LAMBDA r : r._id = id)

\* resumes.filter(r => r._id !== id)
RECURSIVE FilterOut(_, _)
FilterOut(resumes, id) ==
    IF resumes = <<>> THEN <<>>
    ELSE IF Head(resumes)._id = id THEN FilterOut(Tail(resumes), id)
    ELSE <<Head(resumes)>> \o FilterOut(Tail(resumes), id)

\* The comparator of the list route: b.updatedAt - a.updatedAt in milliseconds.
SortKey(r) == DateGetTime(r.updatedAt)

\* The step of a sort that is not stable: r goes in front of its ties.
InsertBeforeTies(sorted, r) ==
    LET n == Cardinality({i \in 1..Len(sorted) : SortKey(sorted[i]) > SortKey(r)})
    IN SubSeq(sorted, 1, n) \o <<r>> \o SubSeq(sorted, n + 1, Len(sorted))

\* One step of a stable sort: r goes behind every entry that is not older.
InsertByUpdatedAt(sorted, r) ==
    LET n == Cardinality({i \in 1..Len(sorted) : SortKey(sorted[i]) >= SortKey(r)})
    IN SubSeq(sorted, 1, n) \o <<r>> \o SubSeq(sorted, n + 1, Len(sorted))

\* resumes.slice().sort(...): stable, updatedAt descending.
RECURSIVE SortByUpdatedAt(_)
SortByUpdatedAt(resumes) ==
    IF resumes = <<>> THEN <<>>
    ELSE InsertByUpdatedAt(SortByUpdatedAt(SubSeq(resumes, 1, Len(resumes) - 1)),
                           resumes[Len(resumes)])

(***************************************************************************)
(* Requests: the inputs the model draws.                                    *)
(***************************************************************************)
Methods == {"GET", "POST", "PUT", "DELETE"}

\* Identifiers makeId may return (uniqueness is only probable).
IdPool == {"r1", "r2", "r3"}

\* Path parameters as written in the URL: plain ids, a percent-encoded id
\* and a malformed percent sequence.
PathSegs == {"r1", "r2", "r%31", "%"}

\* decodeURIComponent: the decoded text, or a URIError.
decodeURIComponent(seg) ==
    IF seg = "%" THEN [threw |-> TRUE, s |-> ""]
    ELSE IF seg = "r%31" THEN [threw |-> FALSE, s |-> "r1"]
    ELSE [threw |-> FALSE, s |-> seg]

ExactPaths ==
    {"api/users/data", "api/users/resumes", "api/users/login",
     "api/users/register", "api/resumes/create", "api/resumes/update",
     "api/ai/enhance-pro-sum", "api/ai/enhance-job-desc", "api/ai/upload-resume"}

\* URL texts without the leading slash.
Rests ==
    ExactPaths \cup {"api/nonexistent", "api/resumes/get/"}
        \cup {"api/resumes/get/" \o g : g \in PathSegs}
        \cup {"api/resumes/public/" \o g : g \in PathSegs}
        \cup {"api/resumes/delete/" \o g : g \in PathSegs}

\* The URLs callers pass: with the slash, a few without, and the empty one.
Urls ==
    {"/" \o r : r \in Rests}
        \cup {"", "api/nonexistent", "api/users/data"}

\* String.prototype.startsWith
StartsWith(s, p) == Len(s) >= Len(p) /\ SubSeq(s, 1, Len(p)) = p

normalizeUrl(url) ==
    IF url = "" THEN "/"
    ELSE IF StartsWith(url, "/") THEN url ELSE "/" \o url

\* path.match(/^prefix(.+)$/): the captured text as a sequence of one, or <<>>.
MatchParam(path, prefix) ==
    IF StartsWith(path, prefix) /\ Len(path) > Len(prefix)
    THEN <<SubSeq(path, Len(prefix) + 1, Len(path))>>
    ELSE <<>>

\* The handler that the chain of tests in handleRequest selects.
Route(method, path) ==
    IF method = "GET" /\ path = "/api/users/data" THEN "users/data"
    ELSE IF method = "GET" /\ path = "/api/users/resumes" THEN "users/resumes"
    ELSE IF method = "POST" /\ path \in {"/api/users/login", "/api/users/register"}
        THEN "users/login"
    ELSE IF method = "POST" /\ path = "/api/resumes/create" THEN "resumes/create"
    ELSE IF method = "GET" /\ MatchParam(path, "/api/resumes/get/") # <<>>
        THEN "resumes/get"
    ELSE IF method = "GET" /\ MatchParam(path, "/api/resumes/public/") # <<>>
        THEN "resumes/public"
    ELSE IF method = "PUT" /\ path = "/api/resumes/update" THEN "resumes/update"
    ELSE IF method = "DELETE" /\ MatchParam(path, "/api/resumes/delete/") # <<>>
        THEN "resumes/delete"
    ELSE IF method = "POST" /\ path = "/api/ai/enhance-pro-sum" THEN "ai/enhance"
    ELSE IF method = "POST" /\ path = "/api/ai/enhance-job-desc" THEN "ai/enhance"
    ELSE IF method = "POST" /\ path = "/api/ai/upload-resume" THEN "ai/upload-resume"
    ELSE "none"

(***************************************************************************)
(* Errors and the envelope.                                                 *)
(***************************************************************************)
axiosLikeError(message, status) ==
    [message |-> message,
     response |-> [status |-> status, data |-> [message |-> message]]]

\* An exception thrown by the runtime (SyntaxError, TypeError, URIError):
\* it carries a name and a message and no response.
RuntimeError(name) == [name |-> name, message |-> name]

\* The message without the path.
NoRouteMessageBare(method, path) == "No local route for " \o method

\* `No local route for ${method} ${path}`
NoRouteMessage(method, path) == "No local route for " \o method \o " " \o path

Return(v) == [threw |-> FALSE, v |-> v]

Throw(e) == [threw |-> TRUE, v |-> e]

\* api.get / post / put / delete: {data} on return, the thrown value rethrown.
ApiSettle(completion) ==
    IF completion.threw
    THEN [settled |-> "rejected", value |-> completion.v]
    ELSE [settled |-> "resolved", value |-> [data |-> completion.v]]

NoBody == [none |-> TRUE]

\* The record of the call that settled last: the request, what the handler
\* read for it (the resume it found, the data URL of its image), the outcome,
\* and for an update the entry its upsert replaced (<<>> when it pushed).
Settled(method, url, body, existing, dataUrl, completion) ==
    [method |-> method, url |-> url, body |-> body, existing |-> existing,
     dataUrl |-> dataUrl, replaced |-> <<>>,
     settled |-> ApiSettle(completion).settled, value |-> ApiSettle(completion).value]

(***************************************************************************)
(* Request bodies.  A property value is [ty, s]: undefined, a string, or a  *)
(* number written s.                                                        *)
(***************************************************************************)
Undefined == [ty |-> "undefined", s |-> ""]

Str(s) == [ty |-> "string", s |-> s]

Num(s) == [ty |-> "number", s |-> s]

\* v || fallback, then .toString()
OrElseText(v, fallback) ==
    IF v.ty = "undefined" \/ v.s = "" \/ (v.ty = "number" /\ v.s = "0")
    THEN fallback ELSE v.s

\* The characters \s matches, as far as the inputs have them.
IsSpace(c) == c \in {" ", "\t", "\n"}

\* String.prototype.trim
RECURSIVE TrimLeft(_)
TrimLeft(s) ==
    IF Len(s) > 0 /\ IsSpace(SubSeq(s, 1, 1)) THEN TrimLeft(SubSeq(s, 2, Len(s))) ELSE s

RECURSIVE TrimRight(_)
TrimRight(s) ==
    IF Len(s) > 0 /\ IsSpace(SubSeq(s, Len(s), Len(s)))
    THEN TrimRight(SubSeq(s, 1, Len(s) - 1)) ELSE s

Trim(s) == TrimRight(TrimLeft(s))

\* The longest summary the upload-resume handler keeps.
SummaryLimit == 600

\* s.slice(0, n)
SliceTo(s, n) == IF Len(s) > n THEN SubSeq(s, 1, n) ELSE s

\* The data URL the FileReader produces for the uploaded image.
DataUrl == "data:image/png;base64,iVBOR"

\* The merge without the inner spread: personal_info is taken from
\* resumeData when it is there.
MergeNextShallow(existing, resumeData, t) ==
    LET base == Spread(existing, resumeData)
    IN [k \in DOMAIN base \cup {"updatedAt"} |->
            IF k = "updatedAt" THEN nowIso(t) ELSE base[k]]

\* The resume literal of the update handler: {...existing, ...resumeData,
\* personal_info: {...}, updatedAt: nowIso()}.
MergeNext(existing, resumeData, t) ==
    LET base == Spread(existing, resumeData)
        info == Spread(PersonalInfoOf(existing), PersonalInfoOf(resumeData))
    IN [k \in DOMAIN base \cup {"personal_info", "updatedAt"} |->
            IF k = "personal_info" THEN info
            ELSE IF k = "updatedAt" THEN nowIso(t)
            ELSE base[k]]

\* next.personal_info = {...next.personal_info, image: dataUrl}
WithImage(next, dataUrl) ==
    [next EXCEPT !.personal_info = Spread(next.personal_info, [image |-> dataUrl])]

(***************************************************************************)
(* Text enhancement stub.                                                   *)
(***************************************************************************)
\* Positions of the double quotes of s.
QuotePositions(s) == {i \in 1..Len(s) : SubSeq(s, i, i) = "\""}

Least(S) == CHOOSE i \in S : \A j \in S : i <= j

Greatest(S) == CHOOSE i \in S : \A j \in S : j <= i

\* prompt.match(/"([\s\S]*)"/)?.[1]: the quantifier is greedy, so the capture
\* runs from the first quote to the last one.
QuotedCapture(s) ==
    IF Cardinality(QuotePositions(s)) >= 2
    THEN <<SubSeq(s, Least(QuotePositions(s)) + 1, Greatest(QuotePositions(s)) - 1)>>
    ELSE <<>>

\* s.replace(/\s+/g, " "): the text up to the first run of whitespace, one
\* space for the run, and the same for what follows it.
RECURSIVE CollapseSpaces(_)
CollapseSpaces(s) ==
    LET spaces == {i \in 1..Len(s) : IsSpace(SubSeq(s, i, i))}
    IN IF spaces = {} THEN s
       ELSE SubSeq(s, 1, Least(spaces) - 1) \o " "
               \o CollapseSpaces(TrimLeft(SubSeq(s, Least(spaces), Len(s))))

\* Below this length the opening sentence is put in front.
ShortLimit == 80

Opening == "Results-driven professional with a strong focus on impact. "

enhanceText(prompt) ==
    LET text == IF prompt.ty = "undefined" THEN "" ELSE prompt.s
        base == Trim(IF QuotedCapture(text) # <<>> THEN QuotedCapture(text)[1] ELSE text)
        cleaned == Trim(CollapseSpaces(base))
    IN IF base = "" THEN ""
       ELSE IF Len(cleaned) < ShortLimit THEN Opening \o cleaned
       ELSE cleaned

(***************************************************************************)
(* Inputs.  The handlers draw what the callers pass (URLs, bodies) and what *)
(* the environment returns (makeId, the clock) from an input record p:      *)
(*   methods, urls   the verb and the URL text of the call                  *)
(*   titles          body.title of create                                   *)
(*   names, emails   body.name and body.email of login and register         *)
(*   bodies          the bodies of update                                   *)
(*   prompts, texts  body.userContent and body.resumeText                   *)
(*   ids             the results of makeId                                  *)
(*   times           the readings of the clock                              *)
(*   payloads, flags the payloads of the login and setLoading actions       *)
(*   inflight        how many updates may be suspended at once              *)
(***************************************************************************)
ResumeIds == {Undefined, Str("")} \cup {Str(i) : i \in IdPool}

\* Bodies of the update route: a plain object {resumeId, resumeData}, or a
\* FormData with resumeId, resumeData (raw: absent, not JSON, "null", or the
\* JSON of data) and possibly an image file.
PlainBody(resumeId, data) ==
    [form |-> FALSE, resumeId |-> resumeId, raw |-> "object", data |-> data,
     image |-> FALSE]

FormBody(resumeId, raw, data, image) ==
    [form |-> TRUE, resumeId |-> resumeId, raw |-> raw, data |-> data, image |-> image]

\* The readings the clock can give from now on.
Readings(p, from) == {t \in p.times : t >= from /\ t <= MaxClock}

(***************************************************************************)
(* The state.                                                               *)
(*   store    the three localStorage cells                                  *)
(*   clock    the last reading of the system clock                          *)
(*   pending  the update calls suspended at the image conversion            *)
(*   last     the call that settled last: its request and its outcome       *)
(*   auth     the state of the auth slice: token, user, loading             *)
(***************************************************************************)
UserCells == {Absent, EmptyText, CorruptText, writeJson(JsNull),
              writeJson(JsObject(<<DefaultUser>>))}

TokenCells == {NoToken, TokenText(""), TokenText("local_token")}

ResumeCells == {Absent, CorruptText, writeJson(JsNull), writeJson(JsArray(<<>>))}

NoCall ==
    [method |-> "", url |-> "", body |-> NoBody, existing |-> <<>>, dataUrl |-> <<>>,
     replaced |-> <<>>, settled |-> "none", value |-> NoBody]

\* The initial state of the auth slice, hydrated from the store when the
\* module is loaded: a stored user that does not parse throws out of the try
\* block before the token is looked at.  (The legacy key "token" is written
\* by nothing in the application and is read as absent.)
Hydrate(st) ==
    LET parsed == st.user.t # "corrupt"
        initialUser == IF st.user.t = "json" THEN st.user.j ELSE JsNull
        initialToken == IF parsed /\ st.token.t = "text" THEN st.token.s ELSE ""
    IN [token |-> IF initialToken # "" THEN initialToken ELSE "local_token",
        user |-> IF Truthy(initialUser) THEN initialUser ELSE JsObject(<<DefaultUser>>),
        loading |-> FALSE]

\* The store of a browser profile the application has not run in yet, or
\* whose cells were cleared or damaged from outside.
Init ==
    /\ store \in [user : UserCells, token : TokenCells, resumes : ResumeCells]
    /\ clock = 1
    /\ pending = <<>>
    /\ last = NoCall
    /\ auth = Hydrate(store)

\* The store of a profile the application has run in.
SeededStore ==
    [user |-> writeJson(JsObject(<<DefaultUser>>)), token |-> TokenText("local_token"),
     resumes |-> writeJson(JsArray(<<>>))]

InitSeeded ==
    /\ store \in {SeededStore, [user |-> Absent, token |-> NoToken, resumes |-> Absent]}
    /\ clock = 1
    /\ pending = <<>>
    /\ last = NoCall
    /\ auth = Hydrate(store)

\* The store as every handler finds it: handleRequest seeds first.
Seeded == ensureSeed(store)

\* The collection the handlers read (an array in every state of this model).
Stored == getResumes(store).a

(***************************************************************************)
(* The handlers.                                                            *)
(***************************************************************************)
\* GET /api/users/data
GetUserData(p) ==
    \E url \in p.urls :
        /\ Route("GET", normalizeUrl(url)) = "users/data"
        /\ store' = Seeded
        /\ last' = Settled("GET", url, NoBody, <<>>, <<>>,
                           Return([user |-> readJson(Seeded.user, JsNull)]))
        /\ UNCHANGED <<clock, pending, auth>>

\* GET /api/users/resumes
ListResumes(p) ==
    \E url \in p.urls :
        /\ Route("GET", normalizeUrl(url)) = "users/resumes"
        /\ store' = Seeded
        /\ last' = Settled("GET", url, NoBody, <<>>, <<>>,
                           Return([resumes |-> SortByUpdatedAt(Stored)]))
        /\ UNCHANGED <<clock, pending, auth>>

\* name: body?.name?.trim() || fallback; a number has no trim method.
TrimmedOr(v, fallback) ==
    IF v.ty = "number" THEN [threw |-> TRUE, s |-> ""]
    ELSE [threw |-> FALSE, s |-> OrElseText(Str(Trim(v.s)), fallback)]

\* POST /api/users/login, /api/users/register
LoginOrRegister(p) ==
    \E url \in p.urls, name \in p.names, email \in p.emails :
        LET path == normalizeUrl(url)
            body == [name |-> name, email |-> email]
            n == TrimmedOr(name, "Joe Doe")
            e == TrimmedOr(email, "joe@example.com")
            user == [_id |-> "local_user", name |-> n.s, email |-> e.s]
        IN /\ Route("POST", path) = "users/login"
           /\ IF n.threw \/ e.threw
              THEN /\ store' = Seeded
                   /\ last' = Settled("POST", url, body, <<>>, <<>>,
                                      Throw(RuntimeError("TypeError")))
              ELSE /\ store' = [Seeded EXCEPT !.user = writeJson(JsObject(<<user>>)),
                                              !.token = TokenText("local_token")]
                   /\ last' = Settled("POST", url, body, <<>>, <<>>,
                          Return([token |-> "local_token", user |-> user,
                                  message |-> IF path = "/api/users/register"
                                              THEN "Registered (local)"
                                              ELSE "Logged in (local)"]))
           /\ UNCHANGED <<clock, pending, auth>>

\* POST /api/resumes/create: makeId returns id, the two nowIso calls read
\* the clock at t1 and then at t2.
CreateResume(p) ==
    \E url \in p.urls, title \in p.titles, id \in p.ids :
      \E t1 \in Readings(p, clock) :
        \E t2 \in Readings(p, t1) :
          LET resume == NewResume(id, OrElseText(title, "Untitled Resume"), "", t1, t2)
          IN /\ Route("POST", normalizeUrl(url)) = "resumes/create"
             /\ Len(Upsert(Stored, resume)) <= MaxResumes
             /\ store' = upsertResume(Seeded, resume)
             /\ clock' = t2
             /\ last' = Settled("POST", url, [title |-> title], <<>>, <<>>,
                                Return([resume |-> resume, message |-> "Resume created"]))
             /\ UNCHANGED <<pending, auth>>

\* The fetch that does not look at the public flag.
FetchOutcomeAnyResume(resumes, seg, publicOnly) ==
    LET d == decodeURIComponent(seg)
        resume == findResume(resumes, d.s)
    IN IF d.threw THEN Throw(RuntimeError("URIError"))
       ELSE IF resume = <<>> THEN Throw(axiosLikeError("Resume not found", 404))
       ELSE Return([resume |-> resume[1]])

\* The outcome of the two fetch routes: the id is decoded, then looked up.
FetchOutcome(resumes, seg, publicOnly) ==
    LET d == decodeURIComponent(seg)
        resume == findResume(resumes, d.s)
    IN IF d.threw THEN Throw(RuntimeError("URIError"))
       ELSE IF resume = <<>> THEN Throw(axiosLikeError("Resume not found", 404))
       ELSE IF publicOnly /\ ~resume[1].public
           THEN Throw(axiosLikeError("Resume not found", 404))
       ELSE Return([resume |-> resume[1]])

\* GET /api/resumes/get/{id}
GetResume(p) ==
    \E url \in p.urls :
        /\ Route("GET", normalizeUrl(url)) = "resumes/get"
        /\ store' = Seeded
        /\ last' = Settled("GET", url, NoBody, <<>>, <<>>,
               FetchOutcome(Stored, MatchParam(normalizeUrl(url), "/api/resumes/get/")[1],
                            FALSE))
        /\ UNCHANGED <<clock, pending, auth>>

\* GET /api/resumes/public/{id}
GetPublicResume(p) ==
    \E url \in p.urls :
        /\ Route("GET", normalizeUrl(url)) = "resumes/public"
        /\ store' = Seeded
        /\ last' = Settled("GET", url, NoBody, <<>>, <<>>,
               FetchOutcome(Stored, MatchParam(normalizeUrl(url), "/api/resumes/public/")[1],
                            TRUE))
        /\ UNCHANGED <<clock, pending, auth>>

\* !resumeId
MissingId(body) == body.resumeId.ty = "undefined" \/ body.resumeId.s = ""

\* The resumeData the update handler merges: the parsed FormData part, or
\* body.resumeData || {}.
ResumeDataOf(body) == IF body.raw = "object" THEN body.data ELSE EmptyObject

\* How far the update handler gets before its first await, in the order of
\* its statements: JSON.parse of the FormData part, the resumeId test, the
\* lookup, the merge (which reads resumeData.personal_info), the image test.
UpdateStage(resumes, body) ==
    IF body.form /\ body.raw = "badjson" THEN "SyntaxError"
    ELSE IF MissingId(body) THEN "400"
    ELSE IF findResume(resumes, body.resumeId.s) = <<>> THEN "404"
    ELSE IF body.form /\ body.raw = "null" THEN "TypeError"
    ELSE IF body.image THEN "await"
    ELSE "upsert"

UpdateError(stage) ==
    IF stage = "400" THEN axiosLikeError("resumeId is required", 400)
    ELSE IF stage = "404" THEN axiosLikeError("Resume not found", 404)
    ELSE RuntimeError(stage)

\* PUT /api/resumes/update, thrown out of before anything is written.
UpdateRejected(p) ==
    \E url \in p.urls, body \in p.bodies :
        /\ Route("PUT", normalizeUrl(url)) = "resumes/update"
        /\ UpdateStage(Stored, body) \in {"SyntaxError", "400", "404", "TypeError"}
        /\ store' = Seeded
        /\ last' = Settled("PUT", url, body, <<>>, <<>>,
                           Throw(UpdateError(UpdateStage(Stored, body))))
        /\ UNCHANGED <<clock, pending, auth>>

\* PUT /api/resumes/update without an image: merge, upsert, return.
UpdateResume(p) ==
    \E url \in p.urls, body \in p.bodies :
      \E t \in Readings(p, clock) :
        LET existing == findResume(Stored, body.resumeId.s)
            next == MergeNext(existing[1], ResumeDataOf(body), t)
        IN /\ Route("PUT", normalizeUrl(url)) = "resumes/update"
           /\ UpdateStage(Stored, body) = "upsert"
           /\ Len(Upsert(Stored, next)) <= MaxResumes
           /\ store' = upsertResume(Seeded, next)
           /\ clock' = t
           /\ last' = [Settled("PUT", url, body, existing, <<>>,
                               Return([resume |-> next, message |-> "Resume updated"]))
                          EXCEPT !.replaced = findResume(Stored, next._id)]
           /\ UNCHANGED <<pending, auth>>

\* PUT /api/resumes/update with an image: the merge is done, then the call
\* is suspended at await fileToDataUrl(imageFile).
UpdateAwaitImage(p) ==
    \E url \in p.urls, body \in p.bodies :
      \E t \in Readings(p, clock) :
        LET existing == findResume(Stored, body.resumeId.s)
            next == MergeNext(existing[1], ResumeDataOf(body), t)
        IN /\ Route("PUT", normalizeUrl(url)) = "resumes/update"
           /\ UpdateStage(Stored, body) = "await"
           /\ Len(pending) < p.inflight
           /\ store' = Seeded
           /\ clock' = t
           /\ pending' = Append(pending, [url |-> url, body |-> body,
                                          existing |-> existing, next |-> next])
           /\ UNCHANGED <<last, auth>>

\* A suspended update that merges again, into the entry stored when it
\* resumes.
ResumedOnStored(call, read) ==
    LET current == findResume(Stored, call.next._id)
        merged == IF current = <<>> THEN call.next
                  ELSE [MergeNext(current[1], ResumeDataOf(call.body), 1)
                            EXCEPT !.updatedAt = call.next.updatedAt]
    IN IF read THEN WithImage(merged, DataUrl) ELSE merged

\* What a suspended update goes on with: the next it built before the await,
\* with the image when the conversion gave a data URL.
Resumed(call, read) ==
    IF read THEN WithImage(call.next, DataUrl) ELSE call.next

\* The rest of a suspended update: the conversion gave a data URL (read) or
\* failed (the catch keeps next as it is); then upsert and return.
UpdateAfterImage ==
    \E i \in DOMAIN pending, read \in BOOLEAN :
        LET call == pending[i]
            next == Resumed(call, read)
        IN /\ Len(Upsert(Stored, next)) <= MaxResumes
           /\ store' = upsertResume(store, next)
           /\ pending' = SubSeq(pending, 1, i - 1) \o SubSeq(pending, i + 1, Len(pending))
           /\ last' = [Settled("PUT", call.url, call.body, call.existing,
                               IF read THEN <<DataUrl>> ELSE <<>>,
                               Return([resume |-> next, message |-> "Resume updated"]))
                          EXCEPT !.replaced = findResume(Stored, next._id)]
           /\ UNCHANGED <<clock, auth>>

\* The outcome and the collection left by the delete route.
DeleteOutcome(resumes, seg) ==
    LET d == decodeURIComponent(seg)
    IN IF d.threw
       THEN [completion |-> Throw(RuntimeError("URIError")), written |-> <<>>]
       ELSE [completion |-> Return([message |-> "Resume deleted"]),
             written |-> <<FilterOut(resumes, d.s)>>]

\* DELETE /api/resumes/delete/{id}
DeleteResume(p) ==
    \E url \in p.urls :
        LET out == DeleteOutcome(Stored,
                       MatchParam(normalizeUrl(url), "/api/resumes/delete/")[1])
        IN /\ Route("DELETE", normalizeUrl(url)) = "resumes/delete"
           /\ store' = IF out.written = <<>> THEN Seeded
                       ELSE setResumes(Seeded, out.written[1])
           /\ last' = Settled("DELETE", url, NoBody, <<>>, <<>>, out.completion)
           /\ UNCHANGED <<clock, pending, auth>>

\* POST /api/ai/enhance-pro-sum, /api/ai/enhance-job-desc: a userContent
\* that is a number has no match method.
EnhanceContent(p) ==
    \E url \in p.urls, prompt \in p.prompts :
        /\ Route("POST", normalizeUrl(url)) = "ai/enhance"
        /\ store' = Seeded
        /\ last' = Settled("POST", url, [userContent |-> prompt], <<>>, <<>>,
                           IF prompt.ty = "number"
                           THEN Throw(RuntimeError("TypeError"))
                           ELSE Return([enhancedContent |-> enhanceText(prompt)]))
        /\ UNCHANGED <<clock, pending, auth>>

\* POST /api/ai/upload-resume
UploadResume(p) ==
    \E url \in p.urls, text \in p.texts, id \in p.ids :
      \E t1 \in Readings(p, clock) :
        \E t2 \in Readings(p, t1) :
          LET summary == SliceTo(Trim(OrElseText(text, "")), SummaryLimit)
              resume == NewResume(id, OrElseText(Undefined, "Uploaded Resume"),
                                  summary, t1, t2)
          IN /\ Route("POST", normalizeUrl(url)) = "ai/upload-resume"
             /\ Len(Upsert(Stored, resume)) <= MaxResumes
             /\ store' = upsertResume(Seeded, resume)
             /\ clock' = t2
             /\ last' = Settled("POST", url, [resumeText |-> text], <<>>, <<>>,
                          Return([resumeId |-> resume._id, message |-> "Resume uploaded"]))
             /\ UNCHANGED <<pending, auth>>

\* Any other method and path.
NoRoute(p) ==
    \E method \in p.methods, url \in p.urls :
        /\ Route(method, normalizeUrl(url)) = "none"
        /\ store' = Seeded
        /\ last' = Settled(method, url, NoBody, <<>>, <<>>,
                     Throw(axiosLikeError(NoRouteMessage(method, normalizeUrl(url)), 404)))
        /\ UNCHANGED <<clock, pending, auth>>

(***************************************************************************)
(* The reducers of the auth slice.  The payload of login is {token, user}   *)
(* as the login and register routes return it: the user is an object.       *)
(***************************************************************************)
\* login: (state, action) => {...}
AuthLogin(p) ==
    \E payload \in p.payloads :
        /\ auth' = [auth EXCEPT !.token = payload.token, !.user = payload.user]
        /\ store' = [store EXCEPT !.user = writeJson(payload.user),
                                  !.token = TokenText(payload.token)]
        /\ UNCHANGED <<clock, pending, last>>

\* logout: (state) => {...}
AuthLogout ==
    /\ auth' = [auth EXCEPT !.token = "", !.user = JsNull]
    /\ store' = [store EXCEPT !.user = Absent, !.token = NoToken]
    /\ UNCHANGED <<clock, pending, last>>

\* setLoading: (state, action) => {...}
AuthSetLoading(p) ==
    \E loading \in p.flags :
        /\ auth' = [auth EXCEPT !.loading = loading]
        /\ UNCHANGED <<store, clock, pending, last>>

(***************************************************************************)
(* The router: every route and every verb, over the URLs of Urls, from any  *)
(* store.                                                                   *)
(***************************************************************************)
RouterInputs ==
    [methods |-> Methods,
     urls |-> Urls,
     titles |-> {Str("My CV")},
     names |-> {Undefined, Str("Ann "), Num("7")},
     emails |-> {Undefined},
     bodies |-> {PlainBody(Undefined, EmptyObject), PlainBody(Str("r1"), EmptyObject),
                 PlainBody(Str("r2"), EmptyObject),
                 FormBody(Undefined, "badjson", EmptyObject, FALSE),
                 FormBody(Str(""), "absent", EmptyObject, FALSE),
                 FormBody(Str("r1"), "null", EmptyObject, FALSE),
                 FormBody(Str("r2"), "null", EmptyObject, FALSE),
                 FormBody(Str("r1"), "object", EmptyObject, TRUE)},
     prompts |-> {Str("")},
     texts |-> {Undefined},
     ids |-> {"r1"},
     times |-> {1},
     inflight |-> MaxInflight]

Next ==
    \/ GetUserData(RouterInputs)
    \/ ListResumes(RouterInputs)
    \/ LoginOrRegister(RouterInputs)
    \/ CreateResume(RouterInputs)
    \/ GetResume(RouterInputs)
    \/ GetPublicResume(RouterInputs)
    \/ UpdateRejected(RouterInputs)
    \/ UpdateResume(RouterInputs)
    \/ UpdateAwaitImage(RouterInputs)
    \/ UpdateAfterImage
    \/ DeleteResume(RouterInputs)
    \/ EnhanceContent(RouterInputs)
    \/ UploadResume(RouterInputs)
    \/ NoRoute(RouterInputs)

Spec == Init /\ [][Next]_vars

(***************************************************************************)
(* The resume routes: create, upload, update, fetch, public fetch and       *)
(* delete over two ids, from a store the application has run in or a        *)
(* cleared one.                                                             *)
(***************************************************************************)
ResumeUrls ==
    {"/api/resumes/create", "/api/resumes/update", "/api/ai/upload-resume"}
        \cup {"/api/resumes/get/" \o g : g \in {"r1", "r2", "r%31", "%"}}
        \cup {"/api/resumes/public/" \o g : g \in {"r1", "r2", "r%31", "%"}}
        \cup {"/api/resumes/delete/" \o g : g \in {"r1", "r2", "r%31", "%"}}

ResumeInputs ==
    [methods |-> Methods,
     urls |-> ResumeUrls,
     titles |-> {Undefined, Str(""), Str("My CV")},
     names |-> {},
     emails |-> {},
     bodies |-> {PlainBody(Str(i), d) :
                    i \in {"r1", "r2"},
                    d \in {[public |-> TRUE], [public |-> FALSE], [_id |-> "r2"]}},
     prompts |-> {},
     texts |-> {Undefined},
     ids |-> {"r1", "r2"},
     times |-> {1, 2},
     inflight |-> MaxInflight]

NextResumes ==
    \/ CreateResume(ResumeInputs)
    \/ UploadResume(ResumeInputs)
    \/ UpdateResume(ResumeInputs)
    \/ GetResume(ResumeInputs)
    \/ GetPublicResume(ResumeInputs)
    \/ DeleteResume(ResumeInputs)

SpecResumes == InitSeeded /\ [][NextResumes]_vars

(***************************************************************************)
(* The list route: creates and updates of three ids over the whole range of *)
(* the clock, and the listing of what they leave.                           *)
(***************************************************************************)
ListInputs ==
    [methods |-> Methods,
     urls |-> {"/api/resumes/create", "/api/resumes/update", "/api/users/resumes"},
     titles |-> {Str("My CV")},
     names |-> {},
     emails |-> {},
     bodies |-> {PlainBody(Str(i), EmptyObject) : i \in IdPool},
     prompts |-> {},
     texts |-> {},
     ids |-> IdPool,
     times |-> 1..MaxClock,
     inflight |-> MaxInflight]

NextList ==
    \/ CreateResume(ListInputs)
    \/ UpdateResume(ListInputs)
    \/ ListResumes(ListInputs)

SpecList == InitSeeded /\ [][NextList]_vars

(***************************************************************************)
(* The update route: plain and FormData bodies, with and without an image,  *)
(* on a resume that was created before.                                     *)
(***************************************************************************)
MergeData ==
    {EmptyObject, [title |-> "T2"], [personal_info |-> [city |-> "X"]],
     [personal_info |-> [country |-> "Y"]]}

MergeInputs ==
    [methods |-> Methods,
     urls |-> {"/api/resumes/create", "/api/resumes/update"},
     titles |-> {Str("My CV")},
     names |-> {},
     emails |-> {},
     bodies |-> {PlainBody(Str("r1"), d) : d \in MergeData}
                \cup {FormBody(Str("r1"), "absent", EmptyObject, TRUE),
                      FormBody(Str("r1"), "object",
                               [personal_info |-> [country |-> "Y"]], TRUE)},
     prompts |-> {},
     texts |-> {},
     ids |-> {"r1"},
     times |-> {1, 2},
     inflight |-> MaxInflight]

NextMerge ==
    \/ CreateResume(MergeInputs)
    \/ UpdateResume(MergeInputs)
    \/ UpdateAwaitImage(MergeInputs)
    \/ UpdateAfterImage

SpecMerge == InitSeeded /\ [][NextMerge]_vars

(***************************************************************************)
(* The writers of the collection: create, upload, update (plain, and        *)
(* suspended at an image) and delete over two ids, with resumeData that     *)
(* carries an _id of its own.                                               *)
(***************************************************************************)
IdsInputs ==
    [methods |-> Methods,
     urls |-> {"/api/resumes/create", "/api/ai/upload-resume", "/api/resumes/update",
               "/api/resumes/delete/r1", "/api/resumes/delete/r2"},
     titles |-> {Str("My CV")},
     names |-> {},
     emails |-> {},
     bodies |-> {PlainBody(Str(i), d) :
                    i \in {"r1", "r2"},
                    d \in {EmptyObject, [_id |-> "r2"], [_id |-> IdNaN]}}
                \cup {FormBody(Str("r1"), "absent", EmptyObject, TRUE)},
     prompts |-> {},
     texts |-> {Str("text")},
     ids |-> {"r1", "r2"},
     times |-> {1},
     inflight |-> MaxInflight]

NextIds ==
    \/ CreateResume(IdsInputs)
    \/ UploadResume(IdsInputs)
    \/ UpdateResume(IdsInputs)
    \/ UpdateAwaitImage(IdsInputs)
    \/ UpdateAfterImage
    \/ DeleteResume(IdsInputs)

SpecIds == InitSeeded /\ [][NextIds]_vars

(***************************************************************************)
(* The writers of the two timestamps: create, upload and update under a     *)
(* clock that does not go back, with resumeData that carries a createdAt.   *)
(***************************************************************************)
StampInputs ==
    [methods |-> Methods,
     urls |-> {"/api/resumes/create", "/api/ai/upload-resume", "/api/resumes/update"},
     titles |-> {Str("My CV")},
     names |-> {},
     emails |-> {},
     bodies |-> {PlainBody(Str("r1"), EmptyObject),
                 PlainBody(Str("r1"), [createdAt |-> nowIso(MaxClock)]),
                 FormBody(Str("r1"), "absent", EmptyObject, TRUE)},
     prompts |-> {},
     texts |-> {Str("text")},
     ids |-> {"r1", "r2"},
     times |-> {1, 2},
     inflight |-> MaxInflight]

NextStamps ==
    \/ CreateResume(StampInputs)
    \/ UploadResume(StampInputs)
    \/ UpdateResume(StampInputs)
    \/ UpdateAwaitImage(StampInputs)
    \/ UpdateAfterImage

SpecStamps == InitSeeded /\ [][NextStamps]_vars

(***************************************************************************)
(* Concurrent updates: two resumes that were created before, and updates    *)
(* that all carry an image and so are all suspended, up to MaxRacing of     *)
(* them at once.                                                            *)
(***************************************************************************)
\* The store after create has run twice, makeId giving r1 and then r2.
TwoResumesStore ==
    setResumes(SeededStore, <<NewResume("r1", "My CV", "", 1, 1),
                              NewResume("r2", "My CV", "", 1, 1)>>)

InitTwoResumes ==
    /\ store = TwoResumesStore
    /\ clock = 1
    /\ pending = <<>>
    /\ last = NoCall
    /\ auth = Hydrate(SeededStore)

RaceInputs ==
    [methods |-> Methods,
     urls |-> {"/api/resumes/update"},
     titles |-> {},
     names |-> {},
     emails |-> {},
     bodies |-> {FormBody(Str("r1"), "object", [title |-> "T2"], TRUE),
                 FormBody(Str("r1"), "object", [personal_info |-> [country |-> "Y"]], TRUE),
                 FormBody(Str("r2"), "object", [title |-> "T3"], TRUE)},
     prompts |-> {},
     texts |-> {},
     ids |-> {},
     times |-> {1, 2},
     inflight |-> MaxRacing]

NextRace ==
    \/ UpdateAwaitImage(RaceInputs)
    \/ UpdateAfterImage

SpecRace == InitTwoResumes /\ [][NextRace]_vars

(***************************************************************************)
(* The user cell: the routes that read and write it and the reducers of the *)
(* auth slice, from any store.                                              *)
(***************************************************************************)
AuthInputs ==
    [methods |-> Methods,
     urls |-> {"/api/users/data", "/api/users/login", "/api/users/register"},
     titles |-> {},
     names |-> {Undefined, Str("Ann ")},
     emails |-> {Undefined, Str("ann@example.com")},
     bodies |-> {},
     prompts |-> {},
     texts |-> {},
     ids |-> {},
     times |-> {1},
     inflight |-> MaxInflight,
     payloads |-> [token : {"local_token", "other_token"},
                   user : {JsObject(<<DefaultUser>>),
                           JsObject(<<[_id |-> "local_user", name |-> "Ann",
                                       email |-> "joe@example.com"]>>)}],
     flags |-> BOOLEAN]

NextAuth ==
    \/ GetUserData(AuthInputs)
    \/ LoginOrRegister(AuthInputs)
    \/ AuthLogin(AuthInputs)
    \/ AuthLogout
    \/ AuthSetLoading(AuthInputs)

SpecAuth == Init /\ [][NextAuth]_vars

(***************************************************************************)
(* The two enhance routes over prompts with and without quotes, with runs   *)
(* of whitespace, and of lengths on both sides of the limit.                *)
(***************************************************************************)
TenChars == "0123456789"

SeventyChars ==
    TenChars \o TenChars \o TenChars \o TenChars \o TenChars \o TenChars \o TenChars

Prompts ==
    {Undefined, Num("7"), Str(""), Str(" \t "), Str("\"\""),
     Str("write about \"built 3 apps\""),
     Str("say \"a\" and \"b\""),
     Str("one \" quote"),
     Str("  led  a\n team "),
     Str("rewrite \" led  a team \" please"),
     Str(SeventyChars \o "012345678"),
     Str(SeventyChars \o TenChars),
     Str("\"" \o SeventyChars \o "0123 5678" \o "\""),
     Str(SeventyChars \o "0123  6789")}

EnhanceInputs ==
    [methods |-> Methods,
     urls |-> {"/api/ai/enhance-pro-sum", "/api/ai/enhance-job-desc",
               "api/ai/enhance-pro-sum", "api/ai/enhance-job-desc"},
     titles |-> {},
     names |-> {},
     emails |-> {},
     bodies |-> {},
     prompts |-> Prompts,
     texts |-> {},
     ids |-> {},
     times |-> {1},
     inflight |-> MaxInflight]

NextEnhance == EnhanceContent(EnhanceInputs)

SpecEnhance == Init /\ [][NextEnhance]_vars

(***************************************************************************)
(* The routes that only read: the four GET routes, the enhance routes and   *)
(* the calls no route matches, on collections that creates have built.      *)
(***************************************************************************)
ReadOnlyInputs ==
    [methods |-> Methods,
     urls |-> {"/api/users/data", "/api/users/resumes", "/api/resumes/get/r1",
               "/api/resumes/get/r3", "/api/resumes/public/r1", "/api/resumes/create",
               "/api/ai/enhance-pro-sum", "/api/ai/enhance-job-desc", "/api/nonexistent"},
     titles |-> {Str("My CV")},
     names |-> {},
     emails |-> {},
     bodies |-> {},
     prompts |-> {Str("write about \"built 3 apps\"")},
     texts |-> {},
     ids |-> {"r1", "r2"},
     times |-> {1, 2},
     inflight |-> MaxInflight]

NextReadOnly ==
    \/ GetUserData(ReadOnlyInputs)
    \/ ListResumes(ReadOnlyInputs)
    \/ CreateResume(ReadOnlyInputs)
    \/ GetResume(ReadOnlyInputs)
    \/ GetPublicResume(ReadOnlyInputs)
    \/ EnhanceContent(ReadOnlyInputs)
    \/ NoRoute(ReadOnlyInputs)

SpecReadOnly == Init /\ [][NextReadOnly]_vars

(***************************************************************************)
(* C10.  Seeding.                                                           *)
(***************************************************************************)
\* A cell holds a user or a collection when it reads as an object or array.
Holds(cell) == Truthy(readJson(cell, JsNull))

HoldsToken(cell) == cell.t = "text" /\ cell.s # ""

\* C10: from any store, one ensureSeed leaves a user, a token and a resume
\* collection stored; a further ensureSeed changes none of the three; and a
\* user, token or collection that is stored already is kept as it is.
SeedingIdempotent ==
    LET once == ensureSeed(store)
    IN /\ Holds(once.user) /\ HoldsToken(once.token) /\ Holds(once.resumes)
       /\ ensureSeed(once) = once
       /\ ensureSeed(ensureSeed(once)) = once
       /\ Holds(store.user) => once.user = store.user
       /\ HoldsToken(store.token) => once.token = store.token
       /\ Holds(store.resumes) => once.resumes = store.resumes

\* A call has seeded a store that held a user of its own and a resume.
SeedingWitness ==
    /\ last.method = "GET"
    /\ Holds(store.user) /\ store.user.j.a[1].name = "Ann"
    /\ Len(Stored) = 1
    /\ ensureSeed(store) = store

(***************************************************************************)
(* C7.  Unmatched routes.                                                   *)
(***************************************************************************)
\* The route table of the interface: the exact paths with their verbs, and
\* the three paths that end in a resume id.
TableExact ==
    {<<"GET", "/api/users/data">>, <<"GET", "/api/users/resumes">>,
     <<"POST", "/api/users/login">>, <<"POST", "/api/users/register">>,
     <<"POST", "/api/resumes/create">>, <<"PUT", "/api/resumes/update">>,
     <<"POST", "/api/ai/enhance-pro-sum">>, <<"POST", "/api/ai/enhance-job-desc">>,
     <<"POST", "/api/ai/upload-resume">>}

TableWithId ==
    {<<"GET", "/api/resumes/get/">>, <<"GET", "/api/resumes/public/">>,
     <<"DELETE", "/api/resumes/delete/">>}

InRouteTable(method, path) ==
    \/ <<method, path>> \in TableExact
    \/ \E r \in TableWithId :
          r[1] = method /\ StartsWith(path, r[2]) /\ Len(path) > Len(r[2])

\* The path with its leading slash.
WithSlash(url) == IF StartsWith(url, "/") THEN url ELSE "/" \o url

Contains(text, part) ==
    \E i \in 1..(Len(text) - Len(part) + 1) : SubSeq(text, i, i + Len(part) - 1) = part

\* The call rejected with {message, response: {status, data: {message}}}.
IsEnvelope(e) ==
    /\ DOMAIN e = {"message", "response"}
    /\ DOMAIN e.response = {"status", "data"}
    /\ DOMAIN e.response.data = {"message"}

RejectedWith(call, status) ==
    /\ call.settled = "rejected"
    /\ IsEnvelope(call.value)
    /\ call.value.response.status = status

\* C7: a call whose method and path are not in the route table (a known
\* path with another verb included) rejects with status 404 and a message
\* that contains the method and the normalized path.
UnmatchedRouteRejects ==
    (last.settled # "none" /\ ~InRouteTable(last.method, WithSlash(last.url)))
        => /\ RejectedWith(last, 404)
           /\ Contains(last.value.message, last.method)
           /\ Contains(last.value.message, WithSlash(last.url))
           /\ Contains(last.value.response.data.message, WithSlash(last.url))

\* A known path called with another verb, written without its slash.
UnmatchedRouteWitness ==
    /\ last.method = "DELETE" /\ last.url = "api/users/data"
    /\ RejectedWith(last, 404)
    /\ last.value.message = "No local route for DELETE /api/users/data"

(***************************************************************************)
(* C8.  The error envelope.                                                 *)
(***************************************************************************)
\* C8: every rejection of a call is an envelope with status 400 or 404 and
\* the same message twice, and every other call resolves to {data}.
EveryRejectionIsEnvelope ==
    /\ last.settled = "rejected"
          => /\ IsEnvelope(last.value)
             /\ last.value.response.status \in {400, 404}
             /\ last.value.response.data.message = last.value.message
    /\ last.settled = "resolved" => DOMAIN last.value = {"data"}

(***************************************************************************)
(* C6.  Failures of the update route.                                       *)
(***************************************************************************)
IsUpdateCall(call) ==
    call.method = "PUT" /\ WithSlash(call.url) = "/api/resumes/update"

HasId(resumes, id) == \E i \in 1..Len(resumes) : resumes[i]._id = id

\* C6: an update without a resumeId rejects with 400, an update whose
\* resumeId names no stored resume rejects with 404, and neither changes the
\* stored collection.
UpdateFailureModes ==
    [][(last' # last /\ IsUpdateCall(last'))
        => /\ MissingId(last'.body)
                => RejectedWith(last', 400) /\ Stored' = Stored
           /\ (~MissingId(last'.body) /\ ~HasId(Stored, last'.body.resumeId.s)
               /\ pending = <<>>)
                => RejectedWith(last', 404) /\ Stored' = Stored]_vars

(***************************************************************************)
(* Calls that carry a resume id in their path.                              *)
(***************************************************************************)
\* The ids of the model, and for each the paths a caller writes for it:
\* the id itself, or its percent-encoding.
AllIds == {"r1", "r2", "r3"}

Written(id) == IF id = "r1" THEN {"r1", "r%31"} ELSE {id}

IsCallFor(call, method, prefix, id) ==
    /\ call.method = method
    /\ \E g \in Written(id) : WithSlash(call.url) = prefix \o g

EntriesWith(resumes, id) == {i \in 1..Len(resumes) : resumes[i]._id = id}

(***************************************************************************)
(* C4.  Public visibility.                                                  *)
(***************************************************************************)
\* C4: the public fetch of an id resolves with the stored resume of that id
\* when there is one and it is public, and rejects with 404 otherwise.  The
\* first conjunct is about the call that was made, the second about the
\* call that could be made in the state.
PublicVisibility ==
    /\ \A id \in AllIds :
          IsCallFor(last, "GET", "/api/resumes/public/", id)
            => IF \E i \in EntriesWith(Stored, id) : Stored[i].public
               THEN /\ last.settled = "resolved"
                    /\ last.value.data.resume._id = id
                    /\ last.value.data.resume.public
                    /\ \E i \in EntriesWith(Stored, id) : Stored[i] = last.value.data.resume
               ELSE RejectedWith(last, 404)
    /\ \A id \in AllIds :
          \A g \in Written(id) :
            LET out == FetchOutcome(Stored, g, TRUE)
            IN (~out.threw) <=> (\E i \in EntriesWith(Stored, id) : Stored[i].public)

\* A resume that was created, then made public by an update, is returned.
PublicVisibilityWitness ==
    /\ IsCallFor(last, "GET", "/api/resumes/public/", "r1")
    /\ last.settled = "resolved"
    /\ last.value.data.resume.updatedAt # last.value.data.resume.createdAt

\* A resume that is stored and not public is refused.
PublicVisibilityRefused ==
    /\ IsCallFor(last, "GET", "/api/resumes/public/", "r1")
    /\ RejectedWith(last, 404)
    /\ HasId(Stored, "r1")

IsCreateCall(call) ==
    call.method = "POST" /\ WithSlash(call.url) = "/api/resumes/create"

\* C2: after a create with a title T (a non-empty string), the fetch of the
\* id the create returned yields a resume with title T, public false and
\* createdAt equal to updatedAt.
CreateFetchRoundTrip ==
    [][\A id \in AllIds :
          (/\ IsCreateCall(last) /\ last.settled = "resolved"
           /\ last.body.title.ty = "string" /\ last.body.title.s # ""
           /\ last.value.data.resume._id = id
           /\ IsCallFor(last', "GET", "/api/resumes/get/", id))
            => /\ last'.settled = "resolved"
               /\ last'.value.data.resume.title = last.body.title.s
               /\ last'.value.data.resume.public = FALSE
               /\ last'.value.data.resume.createdAt
                    = last'.value.data.resume.updatedAt]_vars

(***************************************************************************)
(* C3.  The frame of an update.                                             *)
(***************************************************************************)
IdsOf(resumes) == {resumes[i]._id : i \in 1..Len(resumes)}

\* C3: a successful update with resumeId R leaves the set of stored ids as
\* it was, leaves the entry that had id R with id R, and leaves every other
\* entry unchanged.
UpdateKeepsIds ==
    [][(IsUpdateCall(last') /\ last'.settled = "resolved"
        /\ pending = <<>> /\ pending' = <<>>)
        => /\ IdsOf(Stored') = IdsOf(Stored)
           /\ Len(Stored') = Len(Stored)
           /\ \A i \in 1..Len(Stored) :
                IF Stored[i]._id = last'.body.resumeId.s
                THEN Stored'[i]._id = last'.body.resumeId.s
                ELSE Stored'[i] = Stored[i]]_vars

(***************************************************************************)
(* C5.  List ordering.                                                      *)
(***************************************************************************)
IsListCall(call) ==
    call.method = "GET" /\ WithSlash(call.url) = "/api/users/resumes"

\* The instant an ISO text names.
InstantOf(text) == CHOOSE t \in 1..Len(IsoTable) : IsoTable[t] = text

\* listed is stored rearranged by f, later updates first and ties in the
\* order they are stored in.
ListedBy(f, listed, stored) ==
    /\ \A i \in 1..Len(listed) : listed[i] = stored[f[i]]
    /\ \A i, j \in 1..Len(listed) :
          i < j => \/ InstantOf(listed[i].updatedAt) > InstantOf(listed[j].updatedAt)
                   \/ /\ listed[i].updatedAt = listed[j].updatedAt
                      /\ f[i] < f[j]

\* C5: the list route returns every stored resume exactly once, updatedAt
\* descending, ties in stored order.
ListOrdering ==
    IsListCall(last)
        => /\ last.settled = "resolved"
           /\ Len(last.value.data.resumes) = Len(Stored)
           /\ \E f \in Permutations(1..Len(Stored)) :
                 ListedBy(f, last.value.data.resumes, Stored)

\* Resumes 1, 2, 3 created at t1 < t2 < t3, resume 2 updated at t4: the list
\* is resume 2, resume 3, resume 1.
ListOrderingWitness ==
    /\ IsListCall(last)
    /\ Len(Stored) = 3
    /\ [i \in 1..3 |-> Stored[i]._id] = <<"r1", "r2", "r3">>
    /\ [i \in 1..3 |-> Stored[i].createdAt] = <<nowIso(1), nowIso(2), nowIso(3)>>
    /\ [i \in 1..3 |-> Stored[i].updatedAt] = <<nowIso(1), nowIso(4), nowIso(3)>>
    /\ [i \in 1..3 |-> last.value.data.resumes[i]._id] = <<"r2", "r3", "r1">>

(***************************************************************************)
(* C1.  Partial update merge.                                               *)
(***************************************************************************)
\* The mapping with the keys of prior and of given, given's value where both
\* have the key.
OneLevelMerge(prior, given) ==
    [k \in DOMAIN prior \cup DOMAIN given |->
        IF k \in DOMAIN given THEN given[k] ELSE prior[k]]

\* The personal_info of o, none read as the empty mapping.
InfoOf(o) == IF "personal_info" \in DOMAIN o THEN o.personal_info ELSE EmptyObject

\* The resume a resolved update returns keeps the top-level fields of the
\* resume it read that resumeData does not carry, and is stored.
KeepsOtherFields(call) ==
    LET R == call.existing[1]
        given == ResumeDataOf(call.body)
        updated == call.value.data.resume
    IN /\ \A k \in DOMAIN R \ (DOMAIN given \cup {"updatedAt", "personal_info"}) :
             k \in DOMAIN updated /\ updated[k] = R[k]
       /\ \E i \in 1..Len(Stored) : Stored[i] = updated

\* C1: after a successful update of resume R, every top-level field of R
\* that resumeData does not carry keeps its value (updatedAt excepted), and
\* personal_info is the one-level merge of R's personal_info and
\* resumeData.personal_info, with the key image set to the data URL when an
\* image part was uploaded and converted.
PartialUpdateMerge ==
    (IsUpdateCall(last) /\ last.settled = "resolved")
        => /\ KeepsOtherFields(last)
           /\ last.value.data.resume.personal_info
                = IF last.dataUrl = <<>>
                  THEN OneLevelMerge(InfoOf(last.existing[1]),
                                     InfoOf(ResumeDataOf(last.body)))
                  ELSE OneLevelMerge(
                          OneLevelMerge(InfoOf(last.existing[1]),
                                        InfoOf(ResumeDataOf(last.body))),
                          [image |-> last.dataUrl[1]])

\* A resume whose personal_info has city X among its keys and no country is
\* updated with personal_info {country: Y}: the result has both, and a later
\* updatedAt.
PartialUpdateMergeWitness ==
    /\ IsUpdateCall(last)
    /\ last.settled = "resolved"
    /\ last.dataUrl = <<>>
    /\ ResumeDataOf(last.body) = [personal_info |-> [country |-> "Y"]]
    /\ "city" \in DOMAIN last.existing[1].personal_info
    /\ last.existing[1].personal_info.city = "X"
    /\ "country" \notin DOMAIN last.existing[1].personal_info
    /\ last.value.data.resume.personal_info.city = "X"
    /\ last.value.data.resume.personal_info.country = "Y"
    /\ last.value.data.resume.title = last.existing[1].title
    /\ InstantOf(last.value.data.resume.updatedAt)
          > InstantOf(last.existing[1].updatedAt)

\* C1 as stated: personal_info is exactly the one-level merge of R's
\* personal_info and resumeData.personal_info after every successful update.
PartialUpdateMergeExact ==
    (IsUpdateCall(last) /\ last.settled = "resolved")
        => /\ KeepsOtherFields(last)
           /\ last.value.data.resume.personal_info
                = OneLevelMerge(InfoOf(last.existing[1]),
                                InfoOf(ResumeDataOf(last.body)))

(***************************************************************************)
(* C11.  Id uniqueness.                                                     *)
(***************************************************************************)
\* C11: no two entries of the stored collection have the same id.
IdUniqueness ==
    \A i, j \in 1..Len(Stored) : i # j => Stored[i]._id # Stored[j]._id

(***************************************************************************)
(* C12.  The two timestamps.                                                *)
(***************************************************************************)
\* C12: every stored resume has updatedAt >= createdAt.
TimestampInvariant ==
    \A i \in 1..Len(Stored) :
        DateGetTime(Stored[i].updatedAt) >= DateGetTime(Stored[i].createdAt)

(***************************************************************************)
(* C13.  The updatedAt of an update.                                        *)
(***************************************************************************)
\* C13: the resume a successful update yields has an updatedAt strictly
\* later than the updatedAt of the resume the update read.
UpdatedAtStrictlyLater ==
    (IsUpdateCall(last) /\ last.settled = "resolved")
        => DateGetTime(last.value.data.resume.updatedAt)
              > DateGetTime(last.existing[1].updatedAt)

(***************************************************************************)
(* C14.  The lost update.                                                   *)
(***************************************************************************)
\* The stored entry with the id of resume.
StoredAs(resume) == {i \in 1..Len(Stored) : Stored[i]._id = resume._id}

\* C14: the last writer wins.  When an update resolves that replaces an
\* entry other than the one it read (another call wrote the resume while
\* this one was suspended), what it stores is built from what it read:
\* outside its own resumeData, nothing of the entry it replaces is kept.
LastWriterWins ==
    (IsUpdateCall(last) /\ last.settled = "resolved"
     /\ last.replaced # <<>> /\ last.replaced # last.existing)
        => LET read == last.existing[1]
               overwritten == last.replaced[1]
               given == ResumeDataOf(last.body)
               updated == last.value.data.resume
           IN /\ \E i \in StoredAs(updated) : Stored[i] = updated
              /\ \A k \in DOMAIN overwritten \ (DOMAIN given \cup {"personal_info"}) :
                    IF k \in DOMAIN read
                    THEN updated[k] = read[k] \/ k = "updatedAt"
                    ELSE k \notin DOMAIN updated
              /\ \A k \in DOMAIN InfoOf(overwritten) \ (DOMAIN InfoOf(given) \cup {"image"}) :
                    IF k \in DOMAIN InfoOf(read)
                    THEN updated.personal_info[k] = read.personal_info[k]
                    ELSE k \notin DOMAIN updated.personal_info

\* Two updates of r1 were suspended at their images; the one that sets the
\* title resolved and was stored, then the one that sets the country
\* resolved: the stored r1 has the country and the old title.
LostUpdateWitness ==
    /\ pending = <<>>
    /\ IsUpdateCall(last) /\ last.settled = "resolved"
    /\ last.body.resumeId.s = "r1"
    /\ ResumeDataOf(last.body) = [personal_info |-> [country |-> "Y"]]
    /\ last.existing[1].title = "My CV"
    /\ last.replaced # <<>>
    /\ last.replaced[1].title = "T2"
    /\ \E i \in 1..Len(Stored) :
          /\ Stored[i]._id = "r1"
          /\ Stored[i].title = "My CV"
          /\ Stored[i].personal_info.country = "Y"

(***************************************************************************)
(* C19.  Concurrent updates of different resumes.                           *)
(***************************************************************************)
\* C19: when a suspended update resolves, it stores its merged result under
\* its id and leaves every entry with another id as it is; when no other
\* call wrote its resume in the meantime, the result has the values of its
\* resumeData and, elsewhere, those of the entry it replaces.
ConcurrentUpdatesIndependent ==
    [][(Len(pending') < Len(pending))
        => LET updated == last'.value.data.resume
               given == ResumeDataOf(last'.body)
           IN /\ IsUpdateCall(last') /\ last'.settled = "resolved"
              /\ \E i \in 1..Len(Stored') : Stored'[i] = updated
              /\ \A i \in 1..Len(Stored) :
                    Stored[i]._id # updated._id
                        => i <= Len(Stored') /\ Stored'[i] = Stored[i]
              /\ last'.replaced = last'.existing
                    => /\ \A k \in DOMAIN given \ {"personal_info", "updatedAt"} :
                              updated[k] = given[k]
                       /\ \A k \in DOMAIN last'.replaced[1]
                                    \ (DOMAIN given \cup {"personal_info", "updatedAt"}) :
                              updated[k] = last'.replaced[1][k]]_vars

\* The update of r2 was suspended first, the update of r1 after it; the
\* update of r1 resolved, then the update of r2: both results are stored.
ConcurrentUpdatesWitness ==
    /\ pending = <<>>
    /\ IsUpdateCall(last) /\ last.settled = "resolved"
    /\ last.body.resumeId.s = "r2"
    /\ last.dataUrl # <<>>
    /\ \E i, j \in 1..Len(Stored) :
          /\ Stored[i]._id = "r1" /\ Stored[i].title = "T2"
          /\ Stored[i].updatedAt = nowIso(2)
          /\ "image" \in DOMAIN Stored[i].personal_info
          /\ Stored[j]._id = "r2" /\ Stored[j].title = "T3"
          /\ Stored[j].updatedAt = nowIso(1)
          /\ Stored[j] = last.value.data.resume

(***************************************************************************)
(* C18.  A deleted resume.                                                  *)
(***************************************************************************)
\* C18: after the delete of an id has resolved, a call that was in flight
\* and now resolves leaves no resume with that id in the collection.
DeletedStaysDeleted ==
    [][\A id \in AllIds :
          (/\ IsCallFor(last, "DELETE", "/api/resumes/delete/", id)
           /\ last.settled = "resolved"
           /\ Len(pending') < Len(pending))
            => ~HasId(Stored', id)]_vars

(***************************************************************************)
(* C15.  The stored user.                                                   *)
(***************************************************************************)
\* C15: once a user is stored, a user is stored in every later state.
UserNeverDeleted ==
    [][Holds(store.user) => Holds(store'.user)]_vars

(***************************************************************************)
(* C16.  Stored data that does not read.                                    *)
(***************************************************************************)
\* C16: a user or collection cell that is absent, empty or not JSON reads
\* as the fallback, and every call on a route of the table resolves, or
\* rejects with the 400 or 404 of its route.
ReadFailuresNotSurfaced ==
    /\ \A cell \in {store.user, store.resumes} :
          cell.t \in {"absent", "empty", "corrupt"}
            => readJson(cell, JsNull) = JsNull /\ readJson(cell, JsArray(<<>>)) = JsArray(<<>>)
    /\ (last.settled # "none" /\ InRouteTable(last.method, WithSlash(last.url)))
          => \/ last.settled = "resolved"
             \/ RejectedWith(last, 400) /\ IsUpdateCall(last)
             \/ /\ RejectedWith(last, 404)
                /\ \/ IsUpdateCall(last)
                   \/ /\ last.method = "GET"
                      /\ \/ StartsWith(WithSlash(last.url), "/api/resumes/get/")
                         \/ StartsWith(WithSlash(last.url), "/api/resumes/public/")

(***************************************************************************)
(* C17.  Text enhancement.                                                  *)
(***************************************************************************)
IsEnhanceCall(call) ==
    /\ call.method = "POST"
    /\ WithSlash(call.url) \in {"/api/ai/enhance-pro-sum", "/api/ai/enhance-job-desc"}

\* The first double-quoted substring of s: what stands between its first
\* quote and the next one.
FirstQuoted(s) ==
    LET quotes == {i \in 1..Len(s) : SubSeq(s, i, i) = "\""}
        open == CHOOSE i \in quotes : \A j \in quotes : i <= j
        close == CHOOSE i \in quotes \ {open} : \A j \in quotes \ {open} : i <= j
    IN IF Cardinality(quotes) >= 2 THEN <<SubSeq(s, open + 1, close - 1)>> ELSE <<>>

\* The words of s (what stands between its whitespace) with one space
\* between them.
RECURSIVE Cleaned(_)
Cleaned(s) ==
    LET blanks == {i \in 1..Len(s) : SubSeq(s, i, i) \in {" ", "\t", "\n"}}
        end == IF blanks = {} THEN Len(s)
               ELSE (CHOOSE i \in blanks : \A j \in blanks : i <= j) - 1
        rest == Cleaned(SubSeq(s, end + 1, Len(s)))
    IN IF s = "" THEN ""
       ELSE IF 1 \in blanks THEN Cleaned(SubSeq(s, 2, Len(s)))
       ELSE SubSeq(s, 1, end) \o (IF rest = "" THEN "" ELSE " " \o rest)

\* C17: the enhanced content is made of the first double-quoted substring
\* of the prompt, or of the whole prompt when it has none, with its
\* whitespace collapsed: the fixed sentence and the text when the text is
\* not empty and shorter than 80 characters, the text alone when it is
\* longer, the empty string when it is empty.
EnhanceAsStated ==
    (IsEnhanceCall(last) /\ last.body.userContent.ty # "number")
        => LET prompt == last.body.userContent.s
               text == Cleaned(IF FirstQuoted(prompt) # <<>>
                               THEN FirstQuoted(prompt)[1] ELSE prompt)
           IN /\ last.settled = "resolved"
              /\ last.value.data.enhancedContent
                    = IF text = "" THEN ""
                      ELSE IF Len(text) < 80
                          THEN "Results-driven professional with a strong focus on impact. "
                                  \o text
                      ELSE text

(***************************************************************************)
(* C20.  Routes that only read.                                             *)
(***************************************************************************)
\* A GET call, a call of an enhance route, or a call that no route matched.
IsReadOnlyCall(call) ==
    \/ call.method = "GET"
    \/ IsEnhanceCall(call)
    \/ RejectedWith(call, 404) /\ ~InRouteTable(call.method, WithSlash(call.url))

\* C20: when user, token and collection are stored, a GET call, an enhance
\* call and an unmatched call leave the three cells as they are, the order
\* of the stored collection included.
ReadOnlyRoutes ==
    [][(/\ Holds(store.user) /\ HoldsToken(store.token) /\ Holds(store.resumes)
        /\ IsReadOnlyCall(last'))
        => /\ store' = store
           /\ Stored' = Stored]_vars

\* A list call has returned the collection in another order than the
\* stored one, and the stored one is what it was.
ReadOnlyWitness ==
    /\ IsListCall(last) /\ last.settled = "resolved"
    /\ Len(Stored) = 2
    /\ Stored[1]._id = "r1" /\ Stored[2]._id = "r2"
    /\ last.value.data.resumes = <<Stored[2], Stored[1]>>

====
